---- MODULE Spec2Model ----
(***************************************************************************)
(* A model of src/main.ts of the checkstyle GitHub action: run(),          *)
(* getConclusion() and createCheck(), together with the collaborators they *)
(* call (file search, per-file parser, the remote checks service, the      *)
(* build log and the workflow-command sink).                               *)
(***************************************************************************)
EXTENDS Integers, Sequences, FiniteSets, TLC

\* ------------------------------------------------------------------ bounds
\* Largest number of files the search collaborator returns.
MaxFiles == 2
\* Longest annotation sequence handed to a pure function on its own.
MaxLen == 4
\* Largest batch limit handed to batch() on its own.
MaxLimit == 3

\* ------------------------------------------------------- program constants
MAX_ANNOTATIONS_PER_REQUEST == 50

\* AnnotationLevel of ./github
AnnotationLevel == [notice |-> "notice", warning |-> "warning", failure |-> "failure"]

Levels == {AnnotationLevel.notice, AnnotationLevel.warning, AnnotationLevel.failure}

\* ------------------------------------------------------------ environment
\* Values of the `mode` input: the two valid ones, a wrong one and the empty
\* string (the value of an input that is not set).
Modes == {"inline", "separate", "bogus", ""}

\* Names of check runs: the configured one and another one.
Names == {"Lint", "Other"}

\* Commits: the triggering commit and the head commit of a pull request.
Shas == {"c1", "c2"}

NoPullRequest == "undefined"

\* The ambient context of @actions/github: the triggering commit and, when
\* the run belongs to a pull request, that pull request's head commit.
Contexts ==
  { [sha |-> "c1", pull_request |-> NoPullRequest],
    [sha |-> "c1", pull_request |-> "c2"] }

\* Numbers of annotations a result file holds: none, one, exactly a full
\* request.
FileLens == {0, 1, MAX_ANNOTATIONS_PER_REQUEST}

\* What a result file holds: n annotations, all of level notice but the last
\* one, whose level is `hot`.
FileShapes ==
  { [n |-> 0, hot |-> AnnotationLevel.notice] } \cup
  { [n |-> k, hot |-> l] : k \in FileLens \ {0}, l \in Levels }

\* The results of findResults: up to MaxFiles files, the i-th one at path i.
RECURSIVE FileLists(_)
FileLists(k) ==
  IF k = 0 THEN { <<>> }
  ELSE LET shorter == FileLists(k - 1)
       IN  shorter \cup
           { Append(fs, [path |-> k, n |-> s.n, hot |-> s.hot]) :
               fs \in { g \in shorter : Len(g) = k - 1 }, s \in FileShapes }

SearchResults == FileLists(MaxFiles)

\* -------------------------------------------------------- pure functions
\* The parser of ./annotations: the ordered annotations of one result file.
annotationsForPath(file) ==
  [ k \in 1..file.n |->
      [ path             |-> file.path,
        start_line       |-> k,
        start_column     |-> k + 1,
        annotation_level |-> IF k = file.n THEN file.hot ELSE AnnotationLevel.notice,
        message          |-> <<"msg", file.path, k>> ] ]

\* chain() that puts the annotations of each file before those of the files
\* ahead of it.
RECURSIVE chainPrepends(_)
chainPrepends(files) ==
  IF files = <<>> THEN <<>>
  ELSE chainPrepends(Tail(files)) \o annotationsForPath(Head(files))

\* ramda chain(annotationsForPath, files): map, then flatten one level.
RECURSIVE chain(_)
chain(files) ==
  IF files = <<>> THEN <<>>
  ELSE annotationsForPath(Head(files)) \o chain(Tail(files))

\* ramda splitEvery(n, list): consecutive slices of length n, the last one
\* possibly shorter; no slice at all for the empty list.
RECURSIVE splitEvery(_, _)
splitEvery(n, list) ==
  IF list = <<>> THEN <<>>
  ELSE IF Len(list) <= n THEN << list >>
  ELSE << SubSeq(list, 1, n) >> \o splitEvery(n, SubSeq(list, n + 1, Len(list)))

\* batch() that never splits.
batchNeverSplits(annotations, limit) == << annotations >>

\* batch() that always hands the annotations to splitEvery.
batchAlwaysSplits(annotations, limit) == splitEvery(limit, annotations)

\* groupedAnnotations of run(), with the limit as a parameter.
batch(annotations, limit) ==
  IF Len(annotations) > limit
    THEN splitEvery(limit, annotations)
    ELSE << annotations >>

\* ramda groupBy(a => a.annotation_level, list): an object with one key per
\* level that occurs, holding the annotations of that level in order.
groupByLevel(list) ==
  [ l \in { list[k].annotation_level : k \in 1..Len(list) } |->
      SelectSeq(list, LAMBDA a : a.annotation_level = l) ]

\* annotationsByLevel[level] && annotationsByLevel[level].length
HasLevel(annotationsByLevel, level) ==
  /\ level \in DOMAIN annotationsByLevel
  /\ Len(annotationsByLevel[level]) # 0

\* getConclusion() that looks for warnings before failures.
getConclusionWarningFirst(annotations) ==
  IF Len(annotations) = 0 THEN "success"
  ELSE LET annotationsByLevel == groupByLevel(annotations)
       IN  IF HasLevel(annotationsByLevel, AnnotationLevel.warning) THEN "neutral"
           ELSE IF HasLevel(annotationsByLevel, AnnotationLevel.failure) THEN "failure"
           ELSE "success"

getConclusion(annotations) ==
  IF Len(annotations) = 0 THEN "success"
  ELSE LET annotationsByLevel == groupByLevel(annotations)
       IN  IF HasLevel(annotationsByLevel, AnnotationLevel.failure) THEN "failure"
           ELSE IF HasLevel(annotationsByLevel, AnnotationLevel.warning) THEN "neutral"
           ELSE "success"

\* Decimal digits of a natural number, as a template literal prints it.
Digit(d) == CASE d = 0 -> "0" [] d = 1 -> "1" [] d = 2 -> "2" [] d = 3 -> "3"
              [] d = 4 -> "4" [] d = 5 -> "5" [] d = 6 -> "6" [] d = 7 -> "7"
              [] d = 8 -> "8" [] d = 9 -> "9"

RECURSIVE NumberToString(_)
NumberToString(n) ==
  IF n < 10 THEN << Digit(n) >>
  ELSE NumberToString(n \div 10) \o << Digit(n % 10) >>

\* `${numErrors} violation(s) found`
Summary(numErrors) == NumberToString(numErrors) \o << " violation(s) found" >>

\* ------------------------------------------------------------------ state
VARIABLES
  mode,                    \* input `mode`
  name,                    \* input `name`
  title,                   \* input `title`
  context,                 \* context of @actions/github
  pc,                      \* where run() is: the call it awaits, or start/done
  searchResult,            \* filesToUpload of the search result
  annotations,             \* the flattened annotations
  groupedAnnotations,      \* the batches
  conclusion,              \* the conclusion computed before the loop
  i,                       \* the batch of the loop that is being reported
  calls,                   \* requests issued to the checks service, in order
  responses,               \* the answers to them, in order
  check_runs,              \* the check runs the checks service holds
  log,                     \* lines written with core.error/warning/info/debug
  commands,                \* workflow commands issued with command.issueCommand
  failed,                  \* the message given to core.setFailed, if any
  raised,                  \* the errors the collaborators have raised
  findResultsCalls,        \* arguments of the calls of findResults
  annotationsForPathCalls, \* arguments of the calls of annotationsForPath
  external,                \* TRUE once somebody else has created a check run
  fnOp,                    \* pure function applied on its own, if any
  fnIn,                    \* its annotations argument
  fnLimit,                 \* its limit argument
  fnOut                    \* its result

vars ==
  << mode, name, title, context, pc, searchResult, annotations,
     groupedAnnotations, conclusion, i, calls, responses, check_runs, log,
     commands, failed, raised, findResultsCalls, annotationsForPathCalls, external,
     fnOp, fnIn, fnLimit, fnOut >>

runVars ==
  << mode, name, title, context, pc, searchResult, annotations,
     groupedAnnotations, conclusion, i, calls, responses, check_runs, log,
     commands, failed, raised, findResultsCalls, annotationsForPathCalls, external >>

fnVars == << fnOp, fnIn, fnLimit, fnOut >>

\* The value of the `path` input.
path == "reports/**/*.xml"

NotFailed == "none"

NoConclusion == "none"

\* A check run left on a commit by an earlier run.
EarlierCheckRun(id, n, sha) ==
  [ id         |-> id,
    name       |-> n,
    head_sha   |-> sha,
    conclusion |-> "success",
    status     |-> "completed",
    output     |-> [ title |-> "earlier", summary |-> Summary(0), annotations |-> <<>> ] ]

\* What the checks service holds when the run starts: nothing, or one check run.
InitialCheckRuns ==
  { <<>> } \cup { << EarlierCheckRun(1, n, sha) >> : n \in Names, sha \in Shas }

Init ==
  /\ mode \in Modes
  /\ name = "Lint"
  /\ title = "Checkstyle"
  /\ context \in Contexts
  /\ pc = "start"
  /\ searchResult = <<>>
  /\ annotations = <<>>
  /\ groupedAnnotations = <<>>
  /\ conclusion = NoConclusion
  /\ i = 0
  /\ calls = <<>>
  /\ responses = <<>>
  /\ check_runs \in InitialCheckRuns
  /\ log = <<>>
  /\ commands = <<>>
  /\ failed = NotFailed
  /\ raised = <<>>
  /\ findResultsCalls = <<>>
  /\ annotationsForPathCalls = <<>>
  /\ external = FALSE
  /\ fnOp = "none"
  /\ fnIn = <<>>
  /\ fnLimit = MAX_ANNOTATIONS_PER_REQUEST
  /\ fnOut = <<>>

\* ------------------------------------------------------------ build log
Line(level, text) == [ level |-> level, text |-> text ]

\* core.setFailed(error): marks the process failed with the error's message
\* and writes the message as an error line.
SetFailedLog(l, error) == Append(l, Line("error", << error >>))

\* The info line of the inline loop for one annotation.
CheckstyleLine(annotation) ==
  Line("info",
       << "[Checkstyle ", annotation.annotation_level, "] ", annotation.path, ":",
          annotation.start_line, " ", annotation.message >>)

\* The workflow command of the inline loop for one annotation.
IssueCommand(annotation) ==
  [ command    |-> "error",
    properties |-> [ file |-> annotation.path,
                     line |-> annotation.start_line,
                     col  |-> annotation.start_column ],
    message    |-> annotation.message ]

\* The inline loop: the lines it writes, one per annotation, in order.
InlineLog(as) == [ k \in 1..Len(as) |-> CheckstyleLine(as[k]) ]

\* An inline loop that issues a command for warnings too.
InlineCommandsForWarnings(as) ==
  LET emitted == SelectSeq(as, LAMBDA a : a.annotation_level # AnnotationLevel.notice)
  IN  [ k \in 1..Len(emitted) |->
          [ command    |-> "error",
            properties |-> [ file |-> emitted[k].path,
                             line |-> emitted[k].start_line,
                             col  |-> emitted[k].start_column ],
            message    |-> emitted[k].message ] ]

\* The inline loop: the commands it issues, in order; `continue` skips every
\* annotation whose level is not failure.
InlineCommands(as) ==
  LET emitted == SelectSeq(as, LAMBDA a : ~(a.annotation_level # AnnotationLevel.failure))
  IN  [ k \in 1..Len(emitted) |-> IssueCommand(emitted[k]) ]

\* The info line createCheck writes first.
UploadingLine(annotationSet, numErrors, n, c) ==
  Line("info",
       << "Uploading ", Len(annotationSet), " / ", numErrors,
          " annotations to GitHub as ", n, " with conclusion ", c >>)

\* ------------------------------------------------------- checks service
\* A commit that is the triggering one, pull request or not.
ResolveShaIgnoresPullRequest(ctx) == ctx.sha

\* sha of createCheck: the pull request's head commit, else context.sha.
ResolveSha(ctx) ==
  IF ctx.pull_request # NoPullRequest THEN ctx.pull_request ELSE ctx.sha

NoId == 0

NoOutput == [ title |-> "", summary |-> <<>>, annotations |-> <<>> ]

\* A list request for the triggering commit, whatever the commit resolved.
ListRequestForContextSha(sha) ==
  [ op |-> "listForRef", ref |-> context.sha, head_sha |-> "", check_run_id |-> NoId,
    name |-> "", conclusion |-> "", status |-> "", output |-> NoOutput ]

ListRequest(sha) ==
  [ op |-> "listForRef", ref |-> sha, head_sha |-> "", check_run_id |-> NoId,
    name |-> "", conclusion |-> "", status |-> "", output |-> NoOutput ]

CreateRequest(sha, n, t, annotationSet, numErrors, c) ==
  [ op |-> "create", ref |-> "", head_sha |-> sha, check_run_id |-> NoId,
    name |-> n, conclusion |-> c, status |-> "completed",
    output |-> [ title |-> t, summary |-> Summary(numErrors),
                 annotations |-> annotationSet ] ]

\* An update request whose summary counts the batch.
UpdateRequestCountsBatch(id, t, annotationSet, numErrors, c) ==
  [ op |-> "update", ref |-> "", head_sha |-> "", check_run_id |-> id,
    name |-> "", conclusion |-> c, status |-> "completed",
    output |-> [ title |-> t, summary |-> Summary(Len(annotationSet)),
                 annotations |-> annotationSet ] ]

\* An update request that leaves the annotations out.
UpdateRequestWithoutAnnotations(id, t, annotationSet, numErrors, c) ==
  [ op |-> "update", ref |-> "", head_sha |-> "", check_run_id |-> id,
    name |-> "", conclusion |-> c, status |-> "completed",
    output |-> [ title |-> t, summary |-> Summary(numErrors),
                 annotations |-> <<>> ] ]

UpdateRequest(id, t, annotationSet, numErrors, c) ==
  [ op |-> "update", ref |-> "", head_sha |-> "", check_run_id |-> id,
    name |-> "", conclusion |-> c, status |-> "completed",
    output |-> [ title |-> t, summary |-> Summary(numErrors),
                 annotations |-> annotationSet ] ]

\* The request run() is waiting for.
InFlight == calls[Len(calls)]

\* res.data.check_runs of listForRef: the check runs of the commit.
ListForRef(runs, ref) == SelectSeq(runs, LAMBDA check : check.head_sha = ref)

\* find() that never finds.
FindByNameNeverFinds(runs, n) == 0

\* find() that takes the first element, whatever its name.
FindByNameAnyName(runs, n) == IF Len(runs) > 0 THEN 1 ELSE 0

\* Array.prototype.find: the index of the first element named n, 0 if none.
FindByName(runs, n) ==
  IF \E k \in 1..Len(runs) : runs[k].name = n
    THEN CHOOSE k \in 1..Len(runs) :
           /\ runs[k].name = n
           /\ \A j \in 1..(k - 1) : runs[j].name # n
    ELSE 0

\* The service creating a check run: it gets the next id.
Created(runs, req) ==
  Append(runs,
         [ id         |-> Len(runs) + 1,
           name       |-> req.name,
           head_sha   |-> req.head_sha,
           conclusion |-> req.conclusion,
           status     |-> req.status,
           output     |-> req.output ])

\* The service updating the check run with the request's check_run_id.
Updated(runs, req) ==
  [ k \in 1..Len(runs) |->
      IF runs[k].id = req.check_run_id
        THEN [ runs[k] EXCEPT !.conclusion = req.conclusion,
                              !.status = req.status,
                              !.output = req.output ]
        ELSE runs[k] ]

\* ----------------------------------------------------------------- run()
\* A mode check that takes the empty string for a valid mode.
InvalidModeButEmpty(m) == m # "inline" /\ m # "separate" /\ m # ""

\* mode !== 'inline' && mode !== 'separate'
InvalidMode(m) == m # "inline" /\ m # "separate"

\* A check for no files that never holds.
NoFilesNever(files) == FALSE

\* A test for separate mode that holds for every valid mode.
SeparateModeOrInline(m) == m = "separate" \/ m = "inline"

\* mode === 'separate'
SeparateMode(m) == m = "separate"

\* searchResult.filesToUpload.length === 0
NoFiles(files) == Len(files) = 0

\* A catch that swallows the error.
CaughtAndSwallowed(error) ==
  /\ failed' = NotFailed
  /\ log' = log
  /\ pc' = "done"

\* catch (error) { core.setFailed(error) }
Caught(error) ==
  /\ failed' = error
  /\ log' = SetFailedLog(log, error)
  /\ pc' = "done"

\* A collaborator raises `error` into run().
Raises(error) ==
  /\ raised' = Append(raised, error)
  /\ Caught(error)

\* Lines 14-24: read the inputs, validate the mode, call findResults.
Start ==
  /\ pc = "start"
  /\ IF InvalidMode(mode)
       THEN /\ log' = Append(log, Line("error",
                        << "Invalid mode provided (", mode,
                           "). Use \"inline\" or \"separate\"." >>))
            /\ pc' = "done"
            /\ UNCHANGED findResultsCalls
       ELSE /\ findResultsCalls' = Append(findResultsCalls, path)
            /\ pc' = "findResults"
            /\ UNCHANGED log
  /\ UNCHANGED << mode, name, title, context, searchResult, annotations,
                  groupedAnnotations, conclusion, i, calls, responses, check_runs,
                  commands, failed, raised, annotationsForPathCalls, external,
                  fnVars >>

\* findResults rejects.
FindResultsThrows ==
  /\ pc = "findResults"
  /\ Raises("findResults failed")
  /\ UNCHANGED << mode, name, title, context, searchResult, annotations,
                  groupedAnnotations, conclusion, i, calls, responses, check_runs,
                  commands, findResultsCalls, annotationsForPathCalls, external,
                  fnVars >>

\* Lines 30-33: the two lines written for a search result with files.
FoundLines(files) ==
  << Line("info", << "With the provided path, there will be ", Len(files),
                     " results uploaded" >>),
     Line("debug", << "Root artifact directory is ", "reports" >>) >>

\* Lines 39-48: the two debug lines around the batching.
GroupingLines(as, groups) ==
  << Line("debug", << "Grouping ", Len(as), " annotations into chunks of ",
                      MAX_ANNOTATIONS_PER_REQUEST >>),
     Line("debug", << "Created ", Len(groups), " buckets" >>) >>

\* The for loop of lines 53-61 with k batches behind it and `lines` written:
\* createCheck for batch k + 1 up to its first await (the info line, the
\* commit, the list request), or the end of run().
LoopGoesOn(k, groups, numErrors, c, lines) ==
  IF k < Len(groups)
    THEN /\ i' = k + 1
         /\ log' = Append(lines, UploadingLine(groups[k + 1], numErrors, name, c))
         /\ calls' = Append(calls, ListRequest(ResolveSha(context)))
         /\ pc' = "listForRef"
    ELSE /\ i' = k
         /\ log' = lines
         /\ calls' = calls
         /\ pc' = "done"

\* findResults resolves with `files`; run() goes on to its next await or to
\* its end. thrower = k > 0: annotationsForPath throws on the k-th file.
FindResultsReturns ==
  /\ pc = "findResults"
  /\ \E files \in SearchResults, thrower \in 0..MaxFiles :
       /\ thrower <= Len(files)
       /\ searchResult' = files
       /\ IF NoFiles(files)
            THEN /\ log' = Append(log, Line("warning",
                             << "No files were found for the provided path: ", path,
                                ". No results will be uploaded." >>))
                 /\ pc' = "done"
                 /\ UNCHANGED << annotations, groupedAnnotations, conclusion, i,
                                 calls, commands, failed, raised,
                                 annotationsForPathCalls >>
            ELSE IF thrower > 0
            THEN /\ annotationsForPathCalls' =
                      annotationsForPathCalls \o
                        [ k \in 1..thrower |-> files[k].path ]
                 /\ raised' = Append(raised, "annotationsForPath failed")
                 /\ failed' = "annotationsForPath failed"
                 /\ log' = SetFailedLog(log \o FoundLines(files),
                                        "annotationsForPath failed")
                 /\ pc' = "done"
                 /\ UNCHANGED << annotations, groupedAnnotations, conclusion, i,
                                 calls, commands >>
            ELSE LET as     == chain(files)
                     groups == batch(as, MAX_ANNOTATIONS_PER_REQUEST)
                     lines  == log \o FoundLines(files) \o GroupingLines(as, groups)
                 IN  /\ annotationsForPathCalls' =
                          annotationsForPathCalls \o
                            [ k \in 1..Len(files) |-> files[k].path ]
                     /\ annotations' = as
                     /\ groupedAnnotations' = groups
                     /\ IF SeparateMode(mode)
                          THEN /\ conclusion' = getConclusion(as)
                               /\ LoopGoesOn(0, groups, Len(as), getConclusion(as), lines)
                               /\ UNCHANGED commands
                          ELSE IF mode = "inline"
                          THEN /\ log' = lines \o InlineLog(as)
                               /\ commands' = commands \o InlineCommands(as)
                               /\ pc' = "done"
                               /\ UNCHANGED << conclusion, i, calls >>
                          ELSE /\ log' = lines
                               /\ pc' = "done"
                               /\ UNCHANGED << conclusion, i, calls, commands >>
                     /\ UNCHANGED << failed, raised >>
  /\ UNCHANGED << mode, name, title, context, responses, check_runs,
                  findResultsCalls, external, fnVars >>

\* What the service answers, as far as createCheck reads it.
Rejected == [ status |-> "error", check_runs |-> <<>> ]

Answered(runs) ==
  [ status     |-> "ok",
    check_runs |-> [ k \in 1..Len(runs) |->
                       [ id |-> runs[k].id, name |-> runs[k].name ] ] ]

\* listForRef rejects.
ListForRefThrows ==
  /\ pc = "listForRef"
  /\ responses' = Append(responses, Rejected)
  /\ Raises("listForRef failed")
  /\ UNCHANGED << mode, name, title, context, searchResult, annotations,
                  groupedAnnotations, conclusion, i, calls, check_runs, commands,
                  findResultsCalls, annotationsForPathCalls, external, fnVars >>

\* listForRef resolves: lines 143-161 or 143-177, up to the create or update
\* request of batch i.
ListForRefReturns ==
  /\ pc = "listForRef"
  /\ LET res      == ListForRef(check_runs, InFlight.ref)
         existing == FindByName(res, name)
     IN  /\ responses' = Append(responses, Answered(res))
         /\ IF existing = 0
              THEN /\ calls' = Append(calls,
                                 CreateRequest(ResolveSha(context), name, title,
                                               groupedAnnotations[i], Len(annotations),
                                               conclusion))
                   /\ pc' = "create"
              ELSE /\ calls' = Append(calls,
                                 UpdateRequest(res[existing].id, title,
                                               groupedAnnotations[i], Len(annotations),
                                               conclusion))
                   /\ pc' = "update"
  /\ UNCHANGED << mode, name, title, context, searchResult, annotations,
                  groupedAnnotations, conclusion, i, check_runs, log, commands,
                  failed, raised, findResultsCalls, annotationsForPathCalls,
                  external, fnVars >>

\* checks.create rejects.
CreateThrows ==
  /\ pc = "create"
  /\ responses' = Append(responses, Rejected)
  /\ Raises("create failed")
  /\ UNCHANGED << mode, name, title, context, searchResult, annotations,
                  groupedAnnotations, conclusion, i, calls, check_runs, commands,
                  findResultsCalls, annotationsForPathCalls, external, fnVars >>

\* checks.create resolves: the service has the new check run.
CreateReturns ==
  /\ pc = "create"
  /\ responses' = Append(responses, Answered(<<>>))
  /\ check_runs' = Created(check_runs, InFlight)
  /\ LoopGoesOn(i, groupedAnnotations, Len(annotations), conclusion, log)
  /\ UNCHANGED << mode, name, title, context, searchResult, annotations,
                  groupedAnnotations, conclusion, commands, failed, raised,
                  findResultsCalls, annotationsForPathCalls, external, fnVars >>

\* checks.update rejects.
UpdateThrows ==
  /\ pc = "update"
  /\ responses' = Append(responses, Rejected)
  /\ Raises("update failed")
  /\ UNCHANGED << mode, name, title, context, searchResult, annotations,
                  groupedAnnotations, conclusion, i, calls, check_runs, commands,
                  findResultsCalls, annotationsForPathCalls, external, fnVars >>

\* checks.update resolves: the service has overwritten the check run.
UpdateReturns ==
  /\ pc = "update"
  /\ responses' = Append(responses, Answered(<<>>))
  /\ check_runs' = Updated(check_runs, InFlight)
  /\ LoopGoesOn(i, groupedAnnotations, Len(annotations), conclusion, log)
  /\ UNCHANGED << mode, name, title, context, searchResult, annotations,
                  groupedAnnotations, conclusion, commands, failed, raised,
                  findResultsCalls, annotationsForPathCalls, external, fnVars >>

\* Somebody else creates a check run on the commit run() reports to, once,
\* while run() is suspended in an await (at any other time run() holds the
\* only thread of control).
ExternalCreate ==
  /\ pc \in {"findResults", "listForRef", "create", "update"}
  /\ ~external
  /\ external' = TRUE
  /\ \E n \in Names :
       check_runs' = Append(check_runs,
                            EarlierCheckRun(Len(check_runs) + 1, n, ResolveSha(context)))
  /\ UNCHANGED << mode, name, title, context, pc, searchResult, annotations,
                  groupedAnnotations, conclusion, i, calls, responses, log,
                  commands, failed, raised, findResultsCalls,
                  annotationsForPathCalls, fnVars >>

Next ==
  \/ Start
  \/ FindResultsThrows
  \/ FindResultsReturns
  \/ ListForRefThrows
  \/ ListForRefReturns
  \/ CreateThrows
  \/ CreateReturns
  \/ UpdateThrows
  \/ UpdateReturns
  \/ ExternalCreate

Spec == Init /\ [][Next]_vars

\* ------------------------------------------- pure functions on their own
\* The annotation at position k of a sequence handed to a pure function.
AnnotationAt(k, level) ==
  [ path             |-> 1,
    start_line       |-> k,
    start_column     |-> k + 1,
    annotation_level |-> level,
    message          |-> <<"msg", 1, k>> ]

\* Every annotation sequence of up to MaxLen annotations, with every choice
\* of levels.
FnInputs ==
  UNION { { [ k \in 1..n |-> AnnotationAt(k, ls[k]) ] : ls \in [1..n -> Levels] } :
          n \in 0..MaxLen }

FnInit ==
  /\ mode = "separate"
  /\ name = "Lint"
  /\ title = "Checkstyle"
  /\ context = [sha |-> "c1", pull_request |-> NoPullRequest]
  /\ pc = "start"
  /\ searchResult = <<>>
  /\ annotations = <<>>
  /\ groupedAnnotations = <<>>
  /\ conclusion = NoConclusion
  /\ i = 0
  /\ calls = <<>>
  /\ responses = <<>>
  /\ check_runs = <<>>
  /\ log = <<>>
  /\ commands = <<>>
  /\ failed = NotFailed
  /\ raised = <<>>
  /\ findResultsCalls = <<>>
  /\ annotationsForPathCalls = <<>>
  /\ external = FALSE
  /\ fnOp = "none"
  /\ fnIn \in FnInputs
  /\ fnLimit \in 1..MaxLimit
  /\ fnOut = <<>>

\* batch(fnIn, fnLimit)
CallBatch ==
  /\ fnOp = "none"
  /\ fnOp' = "batch"
  /\ fnOut' = batch(fnIn, fnLimit)
  /\ UNCHANGED << fnIn, fnLimit, runVars >>

\* getConclusion(fnIn)
CallGetConclusion ==
  /\ fnOp = "none"
  /\ fnOp' = "getConclusion"
  /\ fnOut' = getConclusion(fnIn)
  /\ UNCHANGED << fnIn, fnLimit, runVars >>

FnNext == CallBatch \/ CallGetConclusion

FnSpec == FnInit /\ [][FnNext]_vars

\* ================================================================ claims
\* The commit run() reports to.
Target == ResolveSha(context)

\* The positions in `calls` of the create and update requests.
WriteIdx == { k \in 1..Len(calls) : calls[k].op \in {"create", "update"} }

\* The check runs named `name` on the target commit that the service holds.
NamedOnTarget ==
  { k \in 1..Len(check_runs) :
      check_runs[k].name = name /\ check_runs[k].head_sha = Target }

\* The k-th answer is a list that holds a check run named `name`.
ListedNamed(k) ==
  /\ calls[k].op = "listForRef"
  /\ responses[k].status = "ok"
  /\ \E j \in 1..Len(responses[k].check_runs) : responses[k].check_runs[j].name = name

\* The first check run named `name` of the k-th answer.
FirstNamed(k) ==
  LET listed == responses[k].check_runs
      j == CHOOSE j \in 1..Len(listed) :
             /\ listed[j].name = name
             /\ \A h \in 1..(j - 1) : listed[h].name # name
  IN  listed[j]

\* The verdict by precedence: failure, then warning, then success.
Verdict(as) ==
  IF \E k \in 1..Len(as) : as[k].annotation_level = "failure" THEN "failure"
  ELSE IF \E k \in 1..Len(as) : as[k].annotation_level = "warning" THEN "neutral"
  ELSE "success"

\* The concatenation of a sequence of sequences.
RECURSIVE Concat(_)
Concat(seqs) == IF seqs = <<>> THEN <<>> ELSE Head(seqs) \o Concat(Tail(seqs))

\* C1: whenever createCheck's lookup finds a check run named `name` on the
\* target commit, the request that follows is an update carrying the id of
\* that check run (a check run of that name on that commit), no create
\* request follows, and with nobody else writing the commit keeps exactly one
\* check run of that name.
C1_ExistingReportIsUpdated ==
  \A k \in 1..Len(responses) :
    ListedNamed(k) =>
      /\ calls[k + 1].op = "update"
      /\ calls[k + 1].check_run_id = FirstNamed(k).id
      /\ \E r \in NamedOnTarget : check_runs[r].id = FirstNamed(k).id
      /\ \A m \in (k + 1)..Len(calls) : calls[m].op # "create"
      /\ ~external => Cardinality(NamedOnTarget) = 1

\* A run of several batches that found the check run at its first lookup and
\* has updated it for every batch.
C1_Witness ==
  /\ mode = "separate"
  /\ pc = "done"
  /\ raised = <<>>
  /\ ~external
  /\ Len(groupedAnnotations) >= 2
  /\ ListedNamed(1)
  /\ Cardinality(WriteIdx) = Len(groupedAnnotations)

\* The lengths of the batches as the sentence on batch(A, L) states them.
BatchLengthsAsStated(A, L, batches) ==
  IF Len(A) % L # 0
    THEN \A k \in 1..(Len(batches) - 1) : Len(batches[k]) = L
    ELSE \A k \in 1..Len(batches) : Len(batches[k]) = L

\* C2 as stated: the batches concatenate to A, and every batch but possibly
\* the last has length L when len(A) mod L # 0, else all have length L.
C2_AsStated ==
  fnOp = "batch" =>
    /\ Concat(fnOut) = fnIn
    /\ BatchLengthsAsStated(fnIn, fnLimit, fnOut)

\* C2, amended: the batches concatenate to A; for a non-empty A every batch
\* but possibly the last has length L when len(A) mod L # 0, else all have
\* length L; the empty A gives one empty batch.
C2_BatchRoundTrip ==
  fnOp = "batch" =>
    /\ Concat(fnOut) = fnIn
    /\ IF fnIn = <<>>
         THEN fnOut = << <<>> >>
         ELSE BatchLengthsAsStated(fnIn, fnLimit, fnOut)

\* batch() applied to a sequence longer than the limit whose length is not a
\* multiple of it.
C2_Witness ==
  /\ fnOp = "batch"
  /\ Len(fnIn) > fnLimit
  /\ Len(fnIn) % fnLimit # 0
  /\ Len(fnOut) >= 2

\* A separate-mode run that found files, parsed them into no annotation and
\* came to its end without an error.
EmptySeparateRun ==
  /\ mode = "separate"
  /\ pc = "done"
  /\ raised = <<>>
  /\ Len(searchResult) > 0
  /\ Len(annotationsForPathCalls) = Len(searchResult)
  /\ annotations = <<>>

\* C3: the empty annotation sequence is batched into one empty batch, and a
\* separate-mode run with files but no annotation makes exactly one create or
\* update request, with no annotations, the summary "0 violation(s) found"
\* and the conclusion success.
C3_EmptyInputOneReport ==
  EmptySeparateRun =>
    /\ groupedAnnotations = << <<>> >>
    /\ Cardinality(WriteIdx) = 1
    /\ \A k \in WriteIdx :
         /\ calls[k].output.annotations = <<>>
         /\ calls[k].output.summary = << "0", " violation(s) found" >>
         /\ calls[k].conclusion = "success"
         /\ responses[k].status = "ok"

C3_Witness ==
  /\ EmptySeparateRun
  /\ Len(searchResult) = 2

\* as with a notice-level annotation put in after position k.
WithNotice(as, k) ==
  SubSeq(as, 1, k) \o << AnnotationAt(0, AnnotationLevel.notice) >>
    \o SubSeq(as, k + 1, Len(as))

\* C4: getConclusion returns failure if some annotation has level failure,
\* else neutral if some has level warning, else success (also for no
\* annotation); no permutation of the annotations and no added notice-level
\* annotation changes the result.
C4_ConclusionByPrecedence ==
  fnOp = "getConclusion" =>
    /\ fnOut = Verdict(fnIn)
    /\ fnOut \in {"success", "failure", "neutral"}
    /\ \A p \in Permutations(1..Len(fnIn)) :
         getConclusion([ k \in 1..Len(fnIn) |-> fnIn[p[k]] ]) = fnOut
    /\ \A k \in 0..Len(fnIn) : getConclusion(WithNotice(fnIn, k)) = fnOut

\* getConclusion applied to annotations with a warning before a failure.
C4_Witness ==
  /\ fnOp = "getConclusion"
  /\ fnOut = "failure"
  /\ \E a, b \in 1..Len(fnIn) :
       /\ a < b
       /\ fnIn[a].annotation_level = "warning"
       /\ fnIn[b].annotation_level = "failure"

\* C5: every create and update request of a separate-mode run carries the
\* conclusion of the whole annotation sequence and the summary
\* "<length of the whole sequence> violation(s) found".
C5_SameConclusionAndTotal ==
  \A k \in WriteIdx :
    /\ calls[k].conclusion = Verdict(annotations)
    /\ calls[k].output.summary =
         NumberToString(Len(annotations)) \o << " violation(s) found" >>
    /\ \A m \in WriteIdx :
         /\ calls[m].conclusion = calls[k].conclusion
         /\ calls[m].output.summary = calls[k].output.summary

\* Two requests of one run whose batches differ in length and in verdict
\* from the whole sequence.
C5_Witness ==
  /\ mode = "separate"
  /\ Cardinality(WriteIdx) >= 2
  /\ \E k \in WriteIdx :
       /\ Len(calls[k].output.annotations) # Len(annotations)
       /\ Verdict(calls[k].output.annotations) # Verdict(annotations)
       /\ calls[k].op = "update"

\* The message of the error a rejected request raises.
ErrorOf(op) ==
  CASE op = "listForRef" -> "listForRef failed"
    [] op = "create"     -> "create failed"
    [] op = "update"     -> "update failed"

\* C6: once a list, create or update request of batch n is rejected, it is
\* the last request of the run (none for a later batch, none again for batch
\* n), and the run is at its end with the process marked failed with that
\* error; an error raised by the search or the parser marks it failed too,
\* with no request made at all.
C6_FailFast ==
  /\ raised # <<>> =>
       /\ Len(raised) = 1
       /\ pc = "done"
       /\ failed = raised[1]
       /\ Len(responses) = Len(calls)
       /\ raised[1] \in {"findResults failed", "annotationsForPath failed"} =>
            calls = <<>>
  /\ failed # NotFailed => raised # <<>>
  /\ \A k \in 1..Len(responses) :
       responses[k].status = "error" =>
         /\ k = Len(calls)
         /\ raised = << ErrorOf(calls[k].op) >>
         /\ Cardinality({ m \in 1..Len(calls) : calls[m].op = "listForRef" }) = i
         /\ Cardinality(WriteIdx) \in { i - 1, i }
         /\ \A m \in 1..(k - 1) : responses[m].status = "ok"

\* A request of the first batch is rejected while a later batch is still
\* to be reported.
C6_Witness ==
  /\ raised # <<>>
  /\ calls # <<>>
  /\ responses[Len(responses)].status = "error"
  /\ calls[Len(calls)].op \in {"create", "update"}
  /\ i < Len(groupedAnnotations)

\* An inline-mode run that found files, parsed them and came to its end.
InlineRun ==
  /\ mode = "inline"
  /\ pc = "done"
  /\ raised = <<>>
  /\ Len(searchResult) > 0

\* The lines of the build log that the inline loop writes.
CheckstyleLines ==
  SelectSeq(log, LAMBDA l : l.level = "info" /\ l.text[1] = "[Checkstyle ")

\* The annotations of level failure, in order.
Failures == SelectSeq(annotations, LAMBDA a : a.annotation_level = "failure")

\* C7: an inline-mode run writes one info line per annotation, in order and
\* whatever the level, issues one error command per annotation of level
\* failure, in order, with file = path, line = start_line, col = start_column
\* and the message, none for the other levels, and makes no request to the
\* checks service.
C7_InlineEmitsFailuresOnly ==
  /\ mode = "inline" => calls = <<>> /\ responses = <<>>
  /\ mode = "inline" /\ pc # "done" => commands = <<>>
  /\ InlineRun =>
       LET lines    == CheckstyleLines
           failures == Failures
       IN  /\ Len(lines) = Len(annotations)
           /\ \A k \in 1..Len(annotations) :
                lines[k].text =
                  << "[Checkstyle ", annotations[k].annotation_level, "] ",
                     annotations[k].path, ":", annotations[k].start_line, " ",
                     annotations[k].message >>
           /\ Len(commands) = Len(failures)
           /\ \A j \in 1..Len(failures) :
                /\ commands[j].command = "error"
                /\ commands[j].properties =
                     [ file |-> failures[j].path,
                       line |-> failures[j].start_line,
                       col  |-> failures[j].start_column ]
                /\ commands[j].message = failures[j].message

\* An inline-mode run over a failure and a warning.
C7_Witness ==
  /\ InlineRun
  /\ Len(commands) = 1
  /\ \E a, b \in 1..Len(annotations) :
       /\ annotations[a].annotation_level = "failure"
       /\ annotations[b].annotation_level = "warning"

\* A run with a valid mode whose search resolved with no file.
EmptySearchRun ==
  /\ mode \in {"inline", "separate"}
  /\ pc = "done"
  /\ raised = <<>>
  /\ searchResult = <<>>

\* C8: when the search returns no file, in either valid mode the run makes
\* no request to the checks service, issues no command, writes exactly one
\* warning line, never calls the parser and ends with the process not marked
\* failed.
C8_NoFilesNoReport ==
  EmptySearchRun =>
    /\ calls = <<>>
    /\ commands = <<>>
    /\ Len(SelectSeq(log, LAMBDA l : l.level = "warning")) = 1
    /\ annotationsForPathCalls = <<>>
    /\ failed = NotFailed
    /\ findResultsCalls = << path >>

C8_Witness ==
  /\ EmptySearchRun
  /\ mode = "separate"
  /\ log # <<>>

\* C9: for every mode but "inline" and "separate", the empty string
\* included, the run writes exactly one error line, calls neither the search
\* nor the parser nor the checks service, issues no command and ends with the
\* process not marked failed.
C9_InvalidModeLogsOnly ==
  mode \notin {"inline", "separate"} =>
    /\ pc \in {"start", "done"}
    /\ findResultsCalls = <<>>
    /\ annotationsForPathCalls = <<>>
    /\ calls = <<>>
    /\ commands = <<>>
    /\ failed = NotFailed
    /\ pc = "done" => Len(log) = 1 /\ log[1].level = "error"

C9_Witness ==
  /\ mode = ""
  /\ pc = "done"
  /\ Len(log) = 1

\* The first lookup of the run was answered and found no check run named
\* `name`, and nobody else has written.
StartsWithoutReport ==
  /\ ~external
  /\ responses # <<>>
  /\ responses[1].status = "ok"
  /\ ~ListedNamed(1)

\* C10: the requests of a separate-mode run go out one at a time and in
\* batch order: list, then create or update, for batch 1, then for batch 2,
\* ..., each one only after the one before has been answered; when the first
\* lookup finds no check run named `name` and nobody else writes, the first
\* batch issues the only create request and every later batch updates the
\* check run it created (at the end: one create, k - 1 updates).
C10_SequentialBatches ==
  /\ Len(calls) - Len(responses) \in {0, 1}
  /\ \A k \in 1..Len(responses) : k < Len(calls) => responses[k].status = "ok"
  /\ \A k \in 1..Len(calls) :
       IF k % 2 = 1
         THEN calls[k].op = "listForRef"
         ELSE /\ calls[k].op \in {"create", "update"}
              /\ calls[k].output.annotations = groupedAnnotations[k \div 2]
  /\ Len(calls) \in { 2 * i - 1, 2 * i } \/ (i = 0 /\ calls = <<>>)
  /\ StartsWithoutReport =>
       /\ \A k \in WriteIdx :
            IF k = 2
              THEN calls[k].op = "create"
              ELSE /\ calls[k].op = "update"
                   /\ \E r \in NamedOnTarget :
                        /\ check_runs[r].id = calls[k].check_run_id
                        /\ NamedOnTarget = {r}
       /\ pc = "done" /\ raised = <<>> =>
            /\ Cardinality({ k \in WriteIdx : calls[k].op = "create" }) = 1
            /\ Cardinality({ k \in WriteIdx : calls[k].op = "update" }) =
                 Len(groupedAnnotations) - 1

\* A run of several batches that created the check run for the first one.
C10_Witness ==
  /\ pc = "done"
  /\ raised = <<>>
  /\ StartsWithoutReport
  /\ Len(groupedAnnotations) >= 2
  /\ calls[2].op = "create"
  /\ calls[4].op = "update"

\* A separate-mode run that parsed its files and reported every batch
\* without an error.
CompleteSeparateRun ==
  /\ mode = "separate"
  /\ pc = "done"
  /\ raised = <<>>
  /\ Len(searchResult) > 0

\* C11: when a separate-mode run of k batches has completed, the last create
\* or update request it made carries exactly the k-th batch as its
\* annotations (for k >= 2 that is not the whole annotation sequence), it is
\* answered, it goes to a check run named `name` on the target commit, and
\* its summary still gives the length of the whole sequence.
C11_LastWriteIsLastBatch ==
  CompleteSeparateRun =>
    LET k    == Len(groupedAnnotations)
        last == calls[Len(calls)]
    IN  /\ last.op \in {"create", "update"}
        /\ responses[Len(calls)].status = "ok"
        /\ last.output.annotations = groupedAnnotations[k]
        /\ k >= 2 => /\ last.output.annotations # annotations
                     /\ Len(last.output.annotations) < Len(annotations)
                     /\ last.op = "update"
        /\ last.op = "update" =>
             \E r \in NamedOnTarget : check_runs[r].id = last.check_run_id
        /\ last.op = "create" => last.name = name /\ last.head_sha = Target
        /\ last.output.summary =
             NumberToString(Len(annotations)) \o << " violation(s) found" >>

\* A completed run of two batches, the second one shorter than the first.
C11_Witness ==
  /\ CompleteSeparateRun
  /\ Len(groupedAnnotations) = 2
  /\ Len(groupedAnnotations[2]) = 1
  /\ Len(calls) = 4

\* The ids of the check runs named `name` that the service holds for the
\* target commit.
NamedIds == { check_runs[r].id : r \in NamedOnTarget }

\* A step in which a lookup of createCheck is answered.
LookupAnswered ==
  /\ pc = "listForRef"
  /\ pc' \in {"create", "update"}

\* C12: every create and update request follows a lookup of its own, answered
\* in the same step (no identity is kept from one batch to the next); when a
\* check run named `name` is on the target commit at the time of the lookup,
\* whoever created it, the request is an update of such a check run and not a
\* create.
C12_LookupPerBatch ==
  [][ /\ (Len(calls') > Len(calls) /\ calls'[Len(calls')].op \in {"create", "update"})
        => /\ LookupAnswered
           /\ calls[Len(calls)].op = "listForRef"
           /\ Len(responses') = Len(calls)
      /\ (LookupAnswered /\ NamedIds # {})
        => /\ pc' = "update"
           /\ calls'[Len(calls')].op = "update"
           /\ calls'[Len(calls')].check_run_id \in NamedIds
    ]_vars

\* The run created the check run for batch 1, somebody else then created
\* another one of the same name on the same commit, and batch 2 updated.
C12_Witness ==
  /\ mode = "separate"
  /\ external
  /\ Len(calls) >= 4
  /\ calls[2].op = "create"
  /\ calls[4].op = "update"
  /\ Cardinality(NamedOnTarget) = 2
  /\ \E a, b \in NamedOnTarget :
       /\ a < b
       /\ check_runs[a].output.title = title
       /\ check_runs[b].output.title = "earlier"

\* C13: every lookup of a separate-mode run asks for the same commit, the
\* pull request's head commit when the context has a pull request and the
\* triggering commit otherwise, and every create request has that commit as
\* its head_sha.
C13_SameTargetCommit ==
  LET commit == IF context.pull_request = NoPullRequest
                  THEN context.sha
                  ELSE context.pull_request
  IN  \A k \in 1..Len(calls) :
        /\ calls[k].op = "listForRef" => calls[k].ref = commit
        /\ calls[k].op = "create" => calls[k].head_sha = commit
        /\ calls[k].op = "update" =>
             \E r \in 1..Len(check_runs) :
               /\ check_runs[r].id = calls[k].check_run_id
               /\ check_runs[r].head_sha = commit

\* A run in a pull request that created the check run on the head commit
\* for batch 1 and looked it up again for batch 2.
C13_Witness ==
  /\ mode = "separate"
  /\ context.pull_request = "c2"
  /\ context.sha = "c1"
  /\ Len(calls) = 4
  /\ calls[2].op = "create"
  /\ calls[3].ref = "c2"

\* The files have been parsed, all of them, without an error.
Parsed ==
  /\ Len(searchResult) > 0
  /\ Len(annotationsForPathCalls) = Len(searchResult)
  /\ \A k \in 1..Len(raised) : raised[k] # "annotationsForPath failed"

\* The number of annotations in the first p files.
RECURSIVE AnnotationsUpTo(_)
AnnotationsUpTo(p) ==
  IF p = 0 THEN 0 ELSE AnnotationsUpTo(p - 1) + searchResult[p].n

\* The annotations of the create and update requests made so far, in the
\* order of the requests.
Written ==
  Concat([ k \in 1..(Len(calls) \div 2) |-> calls[2 * k].output.annotations ])

\* C14: the annotation sequence is the per-file sequences of the parser, each
\* in parser order, one after the other in the order of the files found; the
\* batches written in separate mode, and the lines and commands of inline
\* mode, follow that order.
C14_OrderPreserved ==
  Parsed =>
    /\ annotationsForPathCalls = [ p \in 1..Len(searchResult) |-> searchResult[p].path ]
    /\ Len(annotations) = AnnotationsUpTo(Len(searchResult))
    /\ \A p \in 1..Len(searchResult) :
         LET before == AnnotationsUpTo(p - 1)
         IN  SubSeq(annotations, before + 1, before + searchResult[p].n) =
               annotationsForPath(searchResult[p])
    /\ Concat(groupedAnnotations) = annotations
    /\ mode = "separate" =>
         /\ Written = SubSeq(annotations, 1, Len(Written))
         /\ pc = "done" /\ raised = <<>> => Written = annotations
    /\ mode = "inline" /\ pc = "done" =>
         LET lines    == CheckstyleLines
             failures == Failures
         IN  /\ [ k \in 1..Len(lines) |-> << lines[k].text[4], lines[k].text[6] >> ] =
                [ k \in 1..Len(annotations) |->
                    << annotations[k].path, annotations[k].start_line >> ]
             /\ [ k \in 1..Len(commands) |->
                    << commands[k].properties.file, commands[k].properties.line >> ] =
                [ k \in 1..Len(failures) |->
                    << failures[k].path, failures[k].start_line >> ]

\* Two files with annotations, reported in two batches.
C14_Witness ==
  /\ Parsed
  /\ mode = "separate"
  /\ pc = "done"
  /\ raised = <<>>
  /\ Len(searchResult) = 2
  /\ searchResult[1].n = 1
  /\ searchResult[2].n = MAX_ANNOTATIONS_PER_REQUEST
  /\ Len(calls) = 4

\* The least number of requests of at most 50 annotations that hold n
\* annotations, and one request for none.
RequestsFor(n) == IF n = 0 THEN 1 ELSE (n + 49) \div 50

\* C15: no create or update request carries more than 50 annotations, and a
\* separate-mode run over n annotations that completes without an error has
\* made exactly max(1, ceil(n / 50)) such requests, one per batch.
C15_AtMostFiftyPerRequest ==
  /\ \A k \in WriteIdx : Len(calls[k].output.annotations) <= 50
  /\ CompleteSeparateRun =>
       /\ Cardinality(WriteIdx) = RequestsFor(Len(annotations))
       /\ Cardinality(WriteIdx) = Len(groupedAnnotations)

\* A completed run over more than 50 annotations, not a multiple of 50.
C15_Witness ==
  /\ CompleteSeparateRun
  /\ Len(annotations) > 50
  /\ Len(annotations) % 50 # 0
  /\ Cardinality(WriteIdx) = 2

\* C16: a separate-mode run issues no workflow command, an inline-mode run
\* makes no request to the checks service, and no run does both.
C16_ModesExclusive ==
  /\ mode = "separate" => commands = <<>>
  /\ mode = "inline" => calls = <<>> /\ responses = <<>> /\ i = 0
  /\ ~(commands # <<>> /\ calls # <<>>)
  /\ commands # <<>> => mode = "inline"
  /\ calls # <<>> => mode = "separate"

\* A separate-mode run over annotations of level failure that has made its
\* requests.
C16_Witness ==
  /\ mode = "separate"
  /\ pc = "done"
  /\ raised = <<>>
  /\ Failures # <<>>
  /\ calls # <<>>
  /\ commands = <<>>

====
